---- MODULE Spec2Model ----
(***************************************************************************)
(* The pitch session of the voice tuner (App component) as a state         *)
(* machine: the React state and refs of the component, the frame loop      *)
(* (processAudio under requestAnimationFrame), the 1000 ms display         *)
(* interval, the freeze timeout, and the asynchronous start / stop.        *)
(*                                                                         *)
(* Frequencies are exact rationals [n, d] in lowest terms (d > 0), so the  *)
(* exponential smoothing and the mean are computed as the code's formulas  *)
(* define them.  Time is the wall clock in ms; it starts at Epoch and the  *)
(* model follows it for MaxTime ms in steps of TickMs.                     *)
(***************************************************************************)
EXTENDS Integers, Sequences, FiniteSets, TLC

VARIABLES
    now,                    \* Date.now(), ms
    isListening,            \* useState(false)
    detectedFrequency,      \* useState(0): the instant value
    displayedFrequency,     \* useState(0): the stabilized display value
    averageFrequency,       \* useState(0): the rolling average (0 = none)
    noteDetails,            \* useState(null): TRUE when a note is shown
    audioContextRef,        \* ref non-null
    analyserRef,            \* ref non-null
    streamRef,              \* ref non-null
    animationFrameId,       \* ref non-null (id of the latest requested frame)
    smoothedFrequencyRef,   \* the smoothed value
    frequencyHistoryRef,    \* sequence of [freq, timestamp]
    lastSoundTimestampRef,  \* ms, 0 after a reset
    resetStateTimeoutRef,   \* [armed, due]: the freeze timer
    rafPending,             \* frame callbacks requested and not yet run
    pendingStarts,          \* startListening calls awaiting getUserMedia
    closureIsListening,     \* isListening as captured by the processAudio
                            \* closure that startListening schedules
    displayIntervalDue,     \* next firing of the display interval (0: none)
    heard,                  \* in-band estimates smoothed since the last reset
    liveStreams,            \* media streams obtained and not yet stopped
    liveContexts,           \* AudioContexts created and not yet closed
    arg,                    \* the call of a pure function under check
    ret                     \* its result

sessionVars == << now, isListening, detectedFrequency, displayedFrequency,
                  averageFrequency, noteDetails, audioContextRef, analyserRef,
                  streamRef, animationFrameId, smoothedFrequencyRef,
                  frequencyHistoryRef, lastSoundTimestampRef,
                  resetStateTimeoutRef, rafPending, pendingStarts,
                  closureIsListening, displayIntervalDue, heard, liveStreams,
                  liveContexts >>

vars == << now, isListening, detectedFrequency, displayedFrequency,
           averageFrequency, noteDetails, audioContextRef, analyserRef,
           streamRef, animationFrameId, smoothedFrequencyRef,
           frequencyHistoryRef, lastSoundTimestampRef, resetStateTimeoutRef,
           rafPending, pendingStarts, closureIsListening, displayIntervalDue,
           heard, liveStreams, liveContexts, arg, ret >>

----------------------------------------------------------------------------
(* Bounds of the model. *)

Epoch == 10000
MaxTime == 3000
TickMs == 500
MaxInBand == 2
MaxLoops == 2

(* Program constants. *)

AlphaNum == 11
AlphaDen == 200
PAUSE_THRESHOLD_MS == 500
FREEZE_ON_SILENCE_MS == 5000
WINDOW_MS == 3000
DISPLAY_INTERVAL_MS == 1000
MinFreq == 80
MaxFreq == 200

(* The estimates findFundamentalFrequency hands to processAudio: silence,  *)
(* just outside the band on both sides, and both band edges.               *)
Estimates == {0, MinFreq - 1, MinFreq, MaxFreq, MaxFreq + 1}

----------------------------------------------------------------------------
(* Exact rational arithmetic on [n |-> numerator, d |-> denominator]. *)

RECURSIVE GCD(_, _)
GCD(a, b) == IF b = 0 THEN a ELSE GCD(b, a % b)

Rat(n, d) == LET g == GCD(n, d) IN [n |-> n \div g, d |-> d \div g]

Zero == [n |-> 0, d |-> 1]

RatAdd(a, b) ==
    LET g == GCD(a.d, b.d)
        l == (a.d \div g) * b.d
    IN  Rat(a.n * (l \div a.d) + b.n * (l \div b.d), l)

RatDivInt(a, k) == Rat(a.n, a.d * k)

RatMulFrac(p, q, a) == Rat(p * a.n, q * a.d)

RatGtInt(a, k) == a.n > k * a.d

----------------------------------------------------------------------------
(* The pure steps of processAudio and of the display interval. *)

InRangeOpenLow(f) == f > MinFreq /\ f <= MaxFreq

InRange(f) == f >= MinFreq /\ f <= MaxFreq

EmaUnweighted(f, s) == RatAdd(Rat(f, 1), s)

EmaNoDecay(f, s) == RatAdd(Rat(AlphaNum * f, AlphaDen), s)

Ema(f, s) == Rat(AlphaNum * f * s.d + (AlphaDen - AlphaNum) * s.n, AlphaDen * s.d)

SmoothedResetOnSilence(f, s) == IF InRange(f) THEN Ema(f, s) ELSE Zero

SmoothedAfterFrame(f, s) == IF InRange(f) THEN Ema(f, s) ELSE s

Pushed(f, h, s, t) ==
    IF InRange(f) THEN Append(h, [freq |-> s, timestamp |-> t]) ELSE h

LastSoundAfterFrame(f, last, t) == IF InRange(f) THEN t ELSE last

PrunedInclusive(h, t) == SelectSeq(h, LAMBDA r : t - r.timestamp <= WINDOW_MS)

Pruned(h, t) == SelectSeq(h, LAMBDA r : t - r.timestamp < WINDOW_MS)

PauseResetAtWindow(h, t, last) == IF t - last > WINDOW_MS THEN << >> ELSE h

PauseReset(h, t, last) == IF t - last > PAUSE_THRESHOLD_MS THEN << >> ELSE h

RECURSIVE SumFreq(_)
SumFreq(h) == IF h = << >> THEN Zero ELSE RatAdd(Head(h).freq, SumFreq(Tail(h)))

MeanOffByOne(h) == IF Len(h) > 0 THEN RatDivInt(SumFreq(h), Len(h) + 1) ELSE Zero

Mean(h) == IF Len(h) > 0 THEN RatDivInt(SumFreq(h), Len(h)) ELSE Zero

NoTimer == [armed |-> FALSE, due |-> 0]

TimerAfterFrame(f, timer, listening, t) ==
    IF InRange(f)
    THEN NoTimer
    ELSE IF ~timer.armed /\ listening
         THEN [armed |-> TRUE, due |-> t + FREEZE_ON_SILENCE_MS]
         ELSE timer

DisplaySampleInverted(s, d) == IF RatGtInt(s, 1) THEN d ELSE s

DisplaySample(s, d) == IF RatGtInt(s, 1) THEN s ELSE d

HasNote(detected) == RatGtInt(detected, 0)

AverageText(avg) == IF RatGtInt(avg, 0) THEN "value" ELSE "--"

(* No pure-function call is under check in the session's behaviours. *)
NoCall == [fn |-> "none", kind |-> "none"]

----------------------------------------------------------------------------
SessionIdle ==
    /\ now = Epoch
    /\ isListening = FALSE
    /\ detectedFrequency = Zero
    /\ displayedFrequency = Zero
    /\ averageFrequency = Zero
    /\ noteDetails = FALSE
    /\ audioContextRef = FALSE
    /\ analyserRef = FALSE
    /\ streamRef = FALSE
    /\ animationFrameId = FALSE
    /\ smoothedFrequencyRef = Zero
    /\ frequencyHistoryRef = << >>
    /\ lastSoundTimestampRef = 0
    /\ resetStateTimeoutRef = NoTimer
    /\ rafPending = 0
    /\ pendingStarts = 0
    /\ closureIsListening = FALSE
    /\ displayIntervalDue = 0
    /\ heard = 0
    /\ liveStreams = 0
    /\ liveContexts = 0

Init ==
    /\ SessionIdle
    /\ arg = NoCall
    /\ ret = NoCall

(* The clock advances. *)
Tick ==
    /\ now + TickMs <= Epoch + MaxTime
    /\ now' = now + TickMs
    /\ UNCHANGED << isListening, detectedFrequency, displayedFrequency,
                    averageFrequency, noteDetails, audioContextRef, analyserRef,
                    streamRef, animationFrameId, smoothedFrequencyRef,
                    frequencyHistoryRef, lastSoundTimestampRef,
                    resetStateTimeoutRef, rafPending, pendingStarts,
                    closureIsListening, displayIntervalDue, heard >>
    /\ UNCHANGED << liveStreams, liveContexts, arg, ret >>

StartBeginKeepsSmoothed ==
    /\ ~isListening
    /\ pendingStarts + rafPending < MaxLoops
    /\ liveStreams = (IF streamRef THEN 1 ELSE 0)
    /\ displayedFrequency' = Zero
    /\ frequencyHistoryRef' = << >>
    /\ lastSoundTimestampRef' = 0
    /\ averageFrequency' = Zero
    /\ heard' = 0
    /\ pendingStarts' = pendingStarts + 1
    /\ closureIsListening' = isListening
    /\ UNCHANGED << now, isListening, detectedFrequency, noteDetails,
                    audioContextRef, analyserRef, streamRef, animationFrameId,
                    resetStateTimeoutRef, rafPending, displayIntervalDue,
                    smoothedFrequencyRef >>
    /\ UNCHANGED << liveStreams, liveContexts, arg, ret >>

(* handleToggleListening while not listening: startListening up to its     *)
(* await of getUserMedia.  The processAudio it will schedule is the        *)
(* closure of the render the click happened in, so that closure's          *)
(* isListening is the value at the click.                                  *)
StartBegin ==
    /\ ~isListening
    /\ pendingStarts + rafPending < MaxLoops
    /\ liveStreams = (IF streamRef THEN 1 ELSE 0)    \* no new start once a stream has leaked
    /\ smoothedFrequencyRef' = Zero
    /\ displayedFrequency' = Zero
    /\ frequencyHistoryRef' = << >>
    /\ lastSoundTimestampRef' = 0
    /\ averageFrequency' = Zero
    /\ heard' = 0
    /\ pendingStarts' = pendingStarts + 1
    /\ closureIsListening' = isListening
    /\ UNCHANGED << now, isListening, detectedFrequency, noteDetails,
                    audioContextRef, analyserRef, streamRef, animationFrameId,
                    resetStateTimeoutRef, rafPending, displayIntervalDue >>
    /\ UNCHANGED << liveStreams, liveContexts, arg, ret >>

(* getUserMedia resolved: the rest of startListening's try block.  The     *)
(* new stream and context replace whatever the refs held, which is         *)
(* neither stopped nor closed.                                             *)
StartResolve ==
    /\ pendingStarts > 0
    /\ pendingStarts' = pendingStarts - 1
    /\ streamRef' = TRUE
    /\ audioContextRef' = TRUE
    /\ analyserRef' = TRUE
    /\ isListening' = TRUE
    /\ animationFrameId' = TRUE
    /\ rafPending' = rafPending + 1
    /\ displayIntervalDue' =
          IF isListening THEN displayIntervalDue ELSE now + DISPLAY_INTERVAL_MS
    /\ UNCHANGED << now, detectedFrequency, displayedFrequency, averageFrequency,
                    noteDetails, smoothedFrequencyRef, frequencyHistoryRef,
                    lastSoundTimestampRef, resetStateTimeoutRef,
                    closureIsListening, heard >>
    /\ liveStreams' = liveStreams + 1
    /\ liveContexts' = liveContexts + 1
    /\ UNCHANGED << arg, ret >>

(* getUserMedia rejected, or a later statement of the try block threw:     *)
(* startListening's catch block.  (A browser without mediaDevices takes    *)
(* StartBegin and this step back to back.)                                 *)
StartReject ==
    /\ pendingStarts > 0
    /\ pendingStarts' = pendingStarts - 1
    /\ isListening' = FALSE
    /\ displayIntervalDue' = 0
    /\ UNCHANGED << now, detectedFrequency, displayedFrequency, averageFrequency,
                    noteDetails, audioContextRef, analyserRef, streamRef,
                    animationFrameId, smoothedFrequencyRef, frequencyHistoryRef,
                    lastSoundTimestampRef, resetStateTimeoutRef, rafPending,
                    closureIsListening, heard >>
    /\ UNCHANGED << liveStreams, liveContexts, arg, ret >>

(* handleToggleListening while listening: stopListening.  The frame id in  *)
(* animationFrameId is the latest request, which is still pending.         *)
StopListening ==
    /\ isListening
    /\ rafPending' = IF animationFrameId THEN rafPending - 1 ELSE rafPending
    /\ animationFrameId' = FALSE
    /\ streamRef' = FALSE
    /\ audioContextRef' = FALSE
    /\ analyserRef' = FALSE
    /\ isListening' = FALSE
    /\ detectedFrequency' = Zero
    /\ displayedFrequency' = Zero
    /\ noteDetails' = FALSE
    /\ smoothedFrequencyRef' = Zero
    /\ frequencyHistoryRef' = << >>
    /\ lastSoundTimestampRef' = 0
    /\ averageFrequency' = Zero
    /\ resetStateTimeoutRef' = NoTimer
    /\ displayIntervalDue' = 0
    /\ heard' = 0
    /\ UNCHANGED << now, pendingStarts, closureIsListening >>
    /\ liveStreams' = IF streamRef THEN liveStreams - 1 ELSE liveStreams
    /\ liveContexts' = IF audioContextRef THEN liveContexts - 1 ELSE liveContexts
    /\ UNCHANGED << arg, ret >>

(* A frame callback that finds the analyser: processAudio with the         *)
(* detector's estimate f, ending with the request of the next frame.  The  *)
(* callback's reads of Date.now() all give now.  Its isListening is the    *)
(* one its closure captured, not the current state.                        *)
FrameTick(f) ==
    /\ rafPending > 0
    /\ analyserRef /\ audioContextRef
    /\ InRange(f) => heard < MaxInBand
    /\ LET newSmoothed == SmoothedAfterFrame(f, smoothedFrequencyRef)
           newLast == LastSoundAfterFrame(f, lastSoundTimestampRef, now)
           newHistory ==
               PauseReset(Pruned(Pushed(f, frequencyHistoryRef, newSmoothed, now),
                                 now), now, newLast)
           newDetected == IF InRange(f) THEN newSmoothed ELSE detectedFrequency
       IN  /\ smoothedFrequencyRef' = newSmoothed
           /\ detectedFrequency' = newDetected
           /\ noteDetails' = HasNote(newDetected)
           /\ lastSoundTimestampRef' = newLast
           /\ frequencyHistoryRef' = newHistory
           /\ averageFrequency' = Mean(newHistory)
    /\ resetStateTimeoutRef' =
          TimerAfterFrame(f, resetStateTimeoutRef, closureIsListening, now)
    /\ heard' = IF InRange(f) THEN heard + 1 ELSE heard
    /\ animationFrameId' = TRUE
    /\ UNCHANGED << now, isListening, displayedFrequency, audioContextRef,
                    analyserRef, streamRef, rafPending, pendingStarts,
                    closureIsListening, displayIntervalDue >>
    /\ UNCHANGED << liveStreams, liveContexts, arg, ret >>

FrameNoopReschedules ==
    /\ rafPending > 0
    /\ ~(analyserRef /\ audioContextRef)
    /\ animationFrameId' = TRUE
    /\ UNCHANGED << now, isListening, detectedFrequency, displayedFrequency,
                    averageFrequency, noteDetails, audioContextRef, analyserRef,
                    streamRef, smoothedFrequencyRef, frequencyHistoryRef,
                    lastSoundTimestampRef, resetStateTimeoutRef, rafPending,
                    pendingStarts, closureIsListening, displayIntervalDue, heard >>
    /\ UNCHANGED << liveStreams, liveContexts, arg, ret >>

(* A frame callback that finds no analyser returns at once and requests    *)
(* no further frame.                                                       *)
FrameNoop ==
    /\ rafPending > 0
    /\ ~(analyserRef /\ audioContextRef)
    /\ rafPending' = rafPending - 1
    /\ UNCHANGED << now, isListening, detectedFrequency, displayedFrequency,
                    averageFrequency, noteDetails, audioContextRef, analyserRef,
                    streamRef, animationFrameId, smoothedFrequencyRef,
                    frequencyHistoryRef, lastSoundTimestampRef,
                    resetStateTimeoutRef, pendingStarts, closureIsListening,
                    displayIntervalDue, heard >>
    /\ UNCHANGED << liveStreams, liveContexts, arg, ret >>

(* The display interval, alive while isListening. *)
DisplayTick ==
    /\ isListening
    /\ now >= displayIntervalDue
    /\ displayedFrequency' = DisplaySample(smoothedFrequencyRef, displayedFrequency)
    /\ displayIntervalDue' = displayIntervalDue + DISPLAY_INTERVAL_MS
    /\ UNCHANGED << now, isListening, detectedFrequency, averageFrequency,
                    noteDetails, audioContextRef, analyserRef, streamRef,
                    animationFrameId, smoothedFrequencyRef, frequencyHistoryRef,
                    lastSoundTimestampRef, resetStateTimeoutRef, rafPending,
                    pendingStarts, closureIsListening, heard >>
    /\ UNCHANGED << liveStreams, liveContexts, arg, ret >>

(* The freeze timeout's callback.  It needs an armed timer; the frame loop *)
(* never arms one (TimerNeverArmed below), so no behaviour takes this      *)
(* step and Next does not list it.                                         *)
FreezeTimeout ==
    /\ resetStateTimeoutRef.armed
    /\ now >= resetStateTimeoutRef.due
    /\ detectedFrequency' = Zero
    /\ displayedFrequency' = Zero
    /\ smoothedFrequencyRef' = Zero
    /\ noteDetails' = FALSE
    /\ resetStateTimeoutRef' = NoTimer
    /\ heard' = 0
    /\ UNCHANGED << now, isListening, averageFrequency, audioContextRef,
                    analyserRef, streamRef, animationFrameId,
                    frequencyHistoryRef, lastSoundTimestampRef, rafPending,
                    pendingStarts, closureIsListening, displayIntervalDue >>
    /\ UNCHANGED << liveStreams, liveContexts, arg, ret >>

Frame == \E f \in Estimates : FrameTick(f)

Next ==
    \/ Tick
    \/ StartBegin
    \/ StartResolve
    \/ StartReject
    \/ StopListening
    \/ Frame
    \/ FrameNoop
    \/ DisplayTick

Spec == Init /\ [][Next]_vars

----------------------------------------------------------------------------
TypeOK ==
    /\ now \in Epoch..(Epoch + MaxTime + TickMs)
    /\ isListening \in BOOLEAN
    /\ rafPending \in 0..(MaxLoops + 1)
    /\ pendingStarts \in 0..(MaxLoops + 1)
    /\ heard \in 0..(MaxInBand + 1)
    /\ resetStateTimeoutRef.armed \in BOOLEAN
    /\ liveStreams \in 0..(MaxLoops + 1)
    /\ liveContexts \in 0..(MaxLoops + 1)

(* The frame loop's closure never sees isListening = TRUE, so the freeze   *)
(* timer is never armed and FreezeTimeout is never enabled.                *)
TimerNeverArmed == ~closureIsListening /\ ~resetStateTimeoutRef.armed

----------------------------------------------------------------------------
(* Helpers of the properties below. *)

InBand(f) == 80 <= f /\ f <= 200

RatMulInt(a, k) == Rat(a.n * k, a.d)

Readings(h) == { h[i] : i \in DOMAIN h }

Young(h, t) == { i \in DOMAIN h : t - h[i].timestamp < 3000 }

----------------------------------------------------------------------------
(* C1: while the session is Listening, a frame whose estimate is not in    *)
(* [80,200] Hz and that finds no freeze timer armed arms a freeze timer    *)
(* for 5000 ms (which, unless an in-band estimate comes first, zeroes the  *)
(* instant, stabilized and smoothed values when it elapses).               *)
C1_SilentFrameArmsFreeze ==
    [][\A f \in Estimates :
         (FrameTick(f) /\ isListening /\ ~InBand(f) /\ ~resetStateTimeoutRef.armed)
            => /\ resetStateTimeoutRef'.armed
               /\ resetStateTimeoutRef'.due = now + 5000]_vars

(* C3: at the end of every frame tick at time now, if                      *)
(* now - lastSoundTimestamp > 500 ms then the history is empty and the     *)
(* rolling average reports none, whatever the ages of the readings; the    *)
(* pause reset changes neither the smoothed nor the instant value.         *)
C3_PauseReset ==
    [][\A f \in Estimates :
         (FrameTick(f) /\ now - lastSoundTimestampRef' > 500)
            => /\ frequencyHistoryRef' = << >>
               /\ averageFrequency' = Zero
               /\ AverageText(averageFrequency') = "--"
               /\ smoothedFrequencyRef' = smoothedFrequencyRef
               /\ detectedFrequency' = detectedFrequency]_vars

(* A pause reset happened: the last reading (taken at lastSoundTimestamp)  *)
(* was younger than 3000 ms and yet the history is empty, while the        *)
(* smoothed and instant values are still those of that reading.            *)
C3_Witness ==
    /\ isListening /\ analyserRef
    /\ lastSoundTimestampRef > 0
    /\ now - lastSoundTimestampRef > 500
    /\ now - lastSoundTimestampRef < 3000
    /\ frequencyHistoryRef = << >>
    /\ averageFrequency = Zero
    /\ RatGtInt(smoothedFrequencyRef, 0)
    /\ detectedFrequency = smoothedFrequencyRef

(* C4: a frame tick at time now keeps exactly the readings with            *)
(* now - timestamp < 3000 ms unless the pause reset of the same tick       *)
(* clears them: after every tick every reading is younger than 3000 ms,    *)
(* and on a tick with now - lastSoundTimestamp <= 500 no reading younger   *)
(* than 3000 ms is removed and none older is kept.                         *)
C4_WindowPruning ==
    [][\A f \in Estimates :
         FrameTick(f) =>
            LET cand == IF InBand(f)
                        THEN Append(frequencyHistoryRef,
                                    [freq |-> smoothedFrequencyRef', timestamp |-> now])
                        ELSE frequencyHistoryRef
            IN  /\ \A i \in DOMAIN frequencyHistoryRef' :
                      now - frequencyHistoryRef'[i].timestamp < 3000
                /\ now - lastSoundTimestampRef' <= 500 =>
                      /\ Len(frequencyHistoryRef') = Cardinality(Young(cand, now))
                      /\ \A i \in Young(cand, now) :
                            cand[i] \in Readings(frequencyHistoryRef')
                      /\ Readings(frequencyHistoryRef') \subseteq Readings(cand)]_vars

(* Two readings are kept by the tick that took the second one, the first   *)
(* being at least 2500 ms old.                                             *)
C4_Witness ==
    /\ Len(frequencyHistoryRef) = 2
    /\ frequencyHistoryRef[2].timestamp = now
    /\ lastSoundTimestampRef = now
    /\ now - frequencyHistoryRef[1].timestamp >= 2500
    /\ now - frequencyHistoryRef[1].timestamp < 3000

(* C5: on a frame tick whose estimate f satisfies 80 <= f <= 200, smoothed *)
(* becomes 0.055*f + 0.945*smoothed, the instant value becomes that new    *)
(* smoothed value, lastSoundTimestamp becomes now and exactly one reading  *)
(* {new smoothed, now} is appended; on any other tick no reading is        *)
(* appended and lastSoundTimestamp is unchanged.                           *)
C5_FrameEffect ==
    [][\A f \in Estimates :
         FrameTick(f) =>
            IF InBand(f)
            THEN /\ smoothedFrequencyRef' =
                       RatAdd(Rat(11 * f, 200), RatMulFrac(189, 200, smoothedFrequencyRef))
                 /\ detectedFrequency' = smoothedFrequencyRef'
                 /\ lastSoundTimestampRef' = now
                 /\ Len(frequencyHistoryRef') >= 1
                 /\ Len(frequencyHistoryRef') <= Len(frequencyHistoryRef) + 1
                 /\ frequencyHistoryRef'[Len(frequencyHistoryRef')] =
                       [freq |-> smoothedFrequencyRef', timestamp |-> now]
                 /\ Readings(SubSeq(frequencyHistoryRef', 1, Len(frequencyHistoryRef') - 1))
                       \subseteq Readings(frequencyHistoryRef)
            ELSE /\ lastSoundTimestampRef' = lastSoundTimestampRef
                 /\ Len(frequencyHistoryRef') <= Len(frequencyHistoryRef)
                 /\ Readings(frequencyHistoryRef') \subseteq Readings(frequencyHistoryRef)]_vars

(* Two in-band ticks at 200 Hz from smoothed = 0: 11, then 21.395. *)
C5_Witness ==
    /\ smoothedFrequencyRef = [n |-> 4279, d |-> 200]
    /\ detectedFrequency = smoothedFrequencyRef
    /\ lastSoundTimestampRef = now
    /\ Len(frequencyHistoryRef) = 2
    /\ frequencyHistoryRef[1].freq = [n |-> 11, d |-> 1]
    /\ frequencyHistoryRef[2] = [freq |-> smoothedFrequencyRef, timestamp |-> now]

(* C6: the rolling average is the arithmetic mean of the frequencies of    *)
(* the readings in the history, and with an empty history it reports no    *)
(* average (shown as '--') rather than a frequency value.                  *)
C6_AverageIsMean ==
    /\ frequencyHistoryRef = << >> =>
          /\ averageFrequency = Zero
          /\ AverageText(averageFrequency) = "--"
    /\ frequencyHistoryRef # << >> =>
          /\ RatMulInt(averageFrequency, Len(frequencyHistoryRef)) =
                SumFreq(frequencyHistoryRef)
          /\ AverageText(averageFrequency) = "value"

(* The mean of two different readings. *)
C6_Witness ==
    /\ Len(frequencyHistoryRef) = 2
    /\ frequencyHistoryRef[1].freq # frequencyHistoryRef[2].freq
    /\ averageFrequency # frequencyHistoryRef[1].freq
    /\ averageFrequency # frequencyHistoryRef[2].freq
    /\ AverageText(averageFrequency) = "value"

(* C7: the smoothed value is left unchanged by every frame tick whose      *)
(* estimate is silent or out of band and by every display tick; it is set  *)
(* to 0 only by session start, session stop and the freeze timeout.        *)
C7_SmoothedPersists ==
    [][/\ \A f \in Estimates :
             (FrameTick(f) /\ ~InBand(f)) => smoothedFrequencyRef' = smoothedFrequencyRef
       /\ DisplayTick => smoothedFrequencyRef' = smoothedFrequencyRef
       /\ (smoothedFrequencyRef' = Zero /\ smoothedFrequencyRef # Zero)
             => (StartBegin \/ StopListening \/ FreezeTimeout)]_vars

(* After the last in-band tick a silent tick reset the history (a pause)   *)
(* and a display tick sampled the value: smoothed is still what it was.    *)
C7_Witness ==
    /\ isListening /\ analyserRef
    /\ RatGtInt(smoothedFrequencyRef, 1)
    /\ lastSoundTimestampRef > 0
    /\ frequencyHistoryRef = << >>
    /\ displayedFrequency = smoothedFrequencyRef
    /\ detectedFrequency = smoothedFrequencyRef

(* C8: the stabilized display value is written only by the display tick    *)
(* and by the resets (start, stop, freeze); on a display tick it becomes   *)
(* the smoothed value if that is > 1 Hz and is otherwise retained; frame   *)
(* ticks never modify it.                                                  *)
C8_DisplayedWrites ==
    [][/\ displayedFrequency' # displayedFrequency
             => (DisplayTick \/ StartBegin \/ StopListening \/ FreezeTimeout)
       /\ DisplayTick =>
             displayedFrequency' = IF RatGtInt(smoothedFrequencyRef, 1)
                                   THEN smoothedFrequencyRef
                                   ELSE displayedFrequency
       /\ \A f \in Estimates : FrameTick(f) => displayedFrequency' = displayedFrequency
       /\ FrameNoop => displayedFrequency' = displayedFrequency]_vars

(* A display tick sampled the first smoothed value and a later in-band     *)
(* frame tick moved smoothed on without touching the display.              *)
C8_Witness ==
    /\ isListening
    /\ RatGtInt(displayedFrequency, 1)
    /\ heard = 2
    /\ Len(frequencyHistoryRef) = 2
    /\ displayedFrequency = frequencyHistoryRef[1].freq
    /\ smoothedFrequencyRef = frequencyHistoryRef[2].freq
    /\ displayedFrequency # smoothedFrequencyRef

(* C9: whenever the state changes Idle -> Listening, the smoothed value is *)
(* 0, the history is empty, lastSoundTimestamp is 0, the stabilized        *)
(* display and the average are 0/none and no freeze timer is armed.        *)
C9_StartResetsAll ==
    [][(~isListening /\ isListening') =>
          /\ smoothedFrequencyRef' = Zero
          /\ frequencyHistoryRef' = << >>
          /\ lastSoundTimestampRef' = 0
          /\ displayedFrequency' = Zero
          /\ averageFrequency' = Zero
          /\ ~resetStateTimeoutRef'.armed]_vars

(* C10: session stop leaves the session Idle with instant, stabilized,     *)
(* smoothed and average values 0/none, note none, history empty,           *)
(* lastSoundTimestamp 0, the freeze timer disarmed and no frame callback   *)
(* scheduled.                                                              *)
C10_StopTearsDown ==
    [][StopListening =>
          /\ ~isListening'
          /\ detectedFrequency' = Zero
          /\ displayedFrequency' = Zero
          /\ smoothedFrequencyRef' = Zero
          /\ averageFrequency' = Zero
          /\ ~noteDetails'
          /\ frequencyHistoryRef' = << >>
          /\ lastSoundTimestampRef' = 0
          /\ ~resetStateTimeoutRef'.armed
          /\ rafPending' = 0]_vars


(* C11: after stop (no analyser, not listening) and until the next start,  *)
(* a frame callback, freeze-timer callback or display tick that still runs *)
(* changes none of smoothed, instant, stabilized display, average, history *)
(* or lastSoundTimestamp, arms no timer and schedules no further frame     *)
(* callback: a frame callback only leaves the set of scheduled callbacks.  *)
C11_CallbacksAfterStopAreNoops ==
    [][(~analyserRef /\ ~isListening /\ ~StartBegin /\ ~StartResolve) =>
          /\ UNCHANGED << smoothedFrequencyRef, detectedFrequency,
                          displayedFrequency, averageFrequency, noteDetails,
                          frequencyHistoryRef, lastSoundTimestampRef,
                          resetStateTimeoutRef, animationFrameId >>
          /\ ~resetStateTimeoutRef'.armed
          /\ rafPending' <= rafPending
          /\ FrameNoop => rafPending' = rafPending - 1
          /\ ~DisplayTick
          /\ ~FreezeTimeout
          /\ \A f \in Estimates : ~FrameTick(f)]_vars

(* The session was stopped and a frame callback of it is still scheduled.  *)
C11_Witness ==
    /\ ~isListening
    /\ ~analyserRef /\ ~audioContextRef /\ ~streamRef
    /\ ~animationFrameId
    /\ rafPending > 0
    /\ pendingStarts = 0

----------------------------------------------------------------------------
(* C19: under every interleaving of toggle clicks with the asynchronous    *)
(* microphone request, at most one frame-processing loop is scheduled at   *)
(* a time, and once stop has cleared the refs no media stream and no       *)
(* AudioContext opened by an earlier start is still live.                  *)
C19_StopReleasesEverything ==
    /\ rafPending <= 1
    /\ ~streamRef => liveStreams = 0
    /\ ~audioContextRef => liveContexts = 0


----------------------------------------------------------------------------
(* findFundamentalFrequency (services/audioService.ts).  A sample is an    *)
(* integer count of 1/64ths (exact in a Float32Array), so rms < 0.01 is    *)
(* 10000 * SumSq < 4096 * size; every later comparison is homogeneous in   *)
(* the samples' unit.  The returned frequency is an exact rational.        *)

MaxLen == 7

Samples == {-1, 0, 2}

SampleRates == {-80, -40, 0, 100, 250, 400, 500, 600}

Buffers == UNION { [1..n -> Samples] : n \in 0..MaxLen }

minFreq == 80
maxFreq == 200

Returns(v) == [fn |-> "findFundamentalFrequency", kind |-> "value", value |-> v]

Throws == [fn |-> "findFundamentalFrequency", kind |-> "throws", value |-> Zero]

(* sum of buffer[i] * buffer[i + lag] over 0 <= i < count (0-based i) *)
RECURSIVE SumProd(_, _, _)
SumProd(buffer, lag, count) ==
    IF count <= 0 THEN 0
    ELSE SumProd(buffer, lag, count - 1) + buffer[count] * buffer[count + lag]

SumSq(buffer) == SumProd(buffer, 0, Len(buffer))

(* rms < 0.01; on an empty buffer rms is 0/0 = NaN and the test is false *)
IsSilenceOnlyZero(buffer) == Len(buffer) > 0 /\ SumSq(buffer) = 0

IsSilence(buffer) == Len(buffer) > 0 /\ 10000 * SumSq(buffer) < 4096 * Len(buffer)

minPeriod(sampleRate) == sampleRate \div maxFreq

maxPeriod(sampleRate) == -((-sampleRate) \div minFreq)

(* new Array(searchSize).fill(0), then the lags from minPeriod up are      *)
(* accumulated; the entries below minPeriod stay 0.                        *)
correlations(buffer, sampleRate) ==
    [lag \in 0..(maxPeriod(sampleRate) - 1) |->
        IF lag >= minPeriod(sampleRate)
        THEN SumProd(buffer, lag, Len(buffer) - lag)
        ELSE 0]

(* a > comparison of two array entries; an index outside the array reads   *)
(* undefined and the comparison is false                                   *)
Greater(c, i, j) == i \in DOMAIN c /\ j \in DOMAIN c /\ c[i] > c[j]

RECURSIVE firstDipFrom(_, _, _)
firstDipFrom(c, searchSize, d) ==
    IF d < searchSize - 1 /\ Greater(c, d, d + 1)
    THEN firstDipFrom(c, searchSize, d + 1)
    ELSE d

firstDip(c, searchSize) == firstDipFrom(c, searchSize, 0)

searchStart(c, searchSize, minP) ==
    LET d == firstDip(c, searchSize) IN IF minP > d THEN minP ELSE d

RECURSIVE maxValFrom(_, _, _, _)
maxValFrom(c, searchSize, i, best) ==
    IF i >= searchSize THEN best
    ELSE maxValFrom(c, searchSize, i + 1, IF c[i] > best THEN c[i] ELSE best)

maxVal(c, searchSize, start) == maxValFrom(c, searchSize, start, -1)


(* correlations[i] > clarityThreshold, with clarityThreshold = maxVal * 0.9 *)
AboveClarity(c, i, mv) == 10 * c[i] > 9 * mv

(* the test of the peak loop at index i *)
IsPeakLastWins(c, i, mv) ==
    AboveClarity(c, i, mv) /\ Greater(c, i, i - 1) /\ ~Greater(c, i + 1, i)

IsPeak(c, i, mv) ==
    AboveClarity(c, i, mv) /\ Greater(c, i, i - 1) /\ Greater(c, i, i + 1)

(* the peak loop: the first index of searchStart..searchSize-2 that passes *)
(* the test, or -1                                                         *)
RECURSIVE firstPeakFrom(_, _, _, _)
firstPeakFrom(c, searchSize, i, mv) ==
    IF i >= searchSize - 1 THEN -1
    ELSE IF IsPeak(c, i, mv) THEN i
    ELSE firstPeakFrom(c, searchSize, i + 1, mv)

(* the fallback loop: the first index that holds the maximum *)
RECURSIVE maxPosFrom(_, _, _, _, _)
maxPosFrom(c, searchSize, i, best, pos) ==
    IF i >= searchSize THEN pos
    ELSE IF c[i] > best THEN maxPosFrom(c, searchSize, i + 1, c[i], i)
    ELSE maxPosFrom(c, searchSize, i + 1, best, pos)

period(c, searchSize, start, mv) ==
    LET p == firstPeakFrom(c, searchSize, start, mv)
    IN  IF p = -1 THEN maxPosFrom(c, searchSize, start, -1, -1) ELSE p

(* sampleRate / T for an integer period *)
PlainEstimate(sampleRate, T0) == Rat(sampleRate, T0)

(* parabolic interpolation around T0, 0 < T0 < searchSize - 1 *)
Interpolated(c, sampleRate, T0) ==
    LET y_minus_1 == c[T0 - 1]
        y_0 == c[T0]
        y_plus_1 == c[T0 + 1]
        pNumerator == y_plus_1 - y_minus_1
        pDenominator == 2 * (2 * y_0 - y_plus_1 - y_minus_1)
        sgn == IF pDenominator < 0 THEN -1 ELSE 1
        tNum == sgn * (T0 * pDenominator + pNumerator)   \* corrected_T = tNum / tDen
        tDen == sgn * pDenominator
    IN  IF pDenominator # 0
        THEN IF tNum <= 0 THEN Zero ELSE Rat(sampleRate * tDen, tNum)
        ELSE PlainEstimate(sampleRate, T0)

findFundamentalFrequency(buffer, sampleRate) ==
    IF IsSilence(buffer) THEN Returns(Zero)
    ELSE IF maxPeriod(sampleRate) < 0 THEN Throws    \* new Array(negative length)
    ELSE
        LET searchSize == maxPeriod(sampleRate)
            c == correlations(buffer, sampleRate)
            start == searchStart(c, searchSize, minPeriod(sampleRate))
            mv == maxVal(c, searchSize, start)
            T0 == period(c, searchSize, start, mv)
        IN  IF mv <= 0 THEN Returns(Zero)
            ELSE IF T0 <= 0 THEN Returns(Zero)
            ELSE IF T0 < searchSize - 1
                 THEN Returns(Interpolated(c, sampleRate, T0))
                 ELSE Returns(PlainEstimate(sampleRate, T0))

DetectCalls ==
    { [fn |-> "findFundamentalFrequency", kind |-> "call", buffer |-> b,
       sampleRate |-> sr] : b \in Buffers, sr \in SampleRates }

InitDetect ==
    /\ SessionIdle
    /\ arg \in DetectCalls
    /\ ret = NoCall

(* One call of findFundamentalFrequency; the function touches no state of  *)
(* the component.                                                          *)
Detect ==
    /\ arg.fn = "findFundamentalFrequency"
    /\ ret = NoCall
    /\ ret' = findFundamentalFrequency(arg.buffer, arg.sampleRate)
    /\ UNCHANGED arg
    /\ UNCHANGED sessionVars

NextDetect == Detect

SpecDetect == InitDetect /\ [][NextDetect]_vars

(* The frame's autocorrelation at a lag, whether or not the detector       *)
(* computed it.                                                            *)
R(buffer, lag) == SumProd(buffer, lag, Len(buffer) - lag)

InVocalBand(v) == v.n >= minFreq * v.d /\ v.n <= maxFreq * v.d

DetectDone == ret.fn = "findFundamentalFrequency"

(* C12: for every frame and positive sample rate, findFundamentalFrequency *)
(* returns 0 or a frequency within 80..200 Hz.                             *)
C12_ZeroOrInBand ==
    (DetectDone /\ arg.sampleRate > 0) =>
        /\ ret.kind = "value"
        /\ ret.value = Zero \/ InVocalBand(ret.value)


(* What the detector computed on the way to its result, for a call that    *)
(* got past the silence test and the array allocation.                     *)
Search(buffer, sampleRate) ==
    LET searchSize == maxPeriod(sampleRate)
        c == correlations(buffer, sampleRate)
        start == searchStart(c, searchSize, minPeriod(sampleRate))
        mv == maxVal(c, searchSize, start)
    IN  [searchSize |-> searchSize, start |-> start, maxVal |-> mv,
         peak |-> firstPeakFrom(c, searchSize, start, mv),
         period |-> period(c, searchSize, start, mv)]

Searched ==
    /\ DetectDone
    /\ ~IsSilence(arg.buffer)
    /\ maxPeriod(arg.sampleRate) > 0
    /\ Search(arg.buffer, arg.sampleRate).maxVal > 0

StrictLocalMaxOfR(buffer, i) ==
    i >= 1 /\ R(buffer, i) > R(buffer, i - 1) /\ R(buffer, i) > R(buffer, i + 1)

(* the lags of the search range above the clarity threshold that are       *)
(* strict local maxima of the frame's autocorrelation                      *)
Qualifying(buffer, sampleRate) ==
    LET s == Search(buffer, sampleRate)
    IN  { i \in s.start..(s.searchSize - 1) :
            10 * R(buffer, i) > 9 * s.maxVal /\ StrictLocalMaxOfR(buffer, i) }

Least(S) == CHOOSE x \in S : \A y \in S : x <= y

(* C13: when the frame's autocorrelation has qualifying local peaks at     *)
(* lags T and 2T of the search range (both above 0.9 * maxVal, hence       *)
(* within 10% of each other), the detector resolves to the longer period   *)
(* 2T.                                                                     *)
C13_OctaveResolvesToLongerPeriod ==
    Searched =>
        \A T \in Qualifying(arg.buffer, arg.sampleRate) :
            2 * T \in Qualifying(arg.buffer, arg.sampleRate) =>
                Search(arg.buffer, arg.sampleRate).period = 2 * T

(* C14: a call with an empty buffer or a sample rate <= 0 is rejected      *)
(* with an error, never answered with 0 or any other frequency, and        *)
(* leaves the session state alone.                                         *)
C14_InvalidFrameRejected ==
    (DetectDone /\ (Len(arg.buffer) = 0 \/ arg.sampleRate <= 0)) =>
        /\ ret.kind = "throws"
        /\ SessionIdle

RmsBelowThreshold(buffer) ==
    Len(buffer) > 0 /\ 10000 * R(buffer, 0) < 4096 * Len(buffer)

(* C15: a frame whose RMS is below 0.01 makes findFundamentalFrequency     *)
(* return 0, whatever the sample rate and the frame's autocorrelation.     *)
C15_QuietFrameReturnsZero ==
    (DetectDone /\ RmsBelowThreshold(arg.buffer)) => ret = Returns(Zero)

(* a quiet but nonzero frame whose autocorrelation is positive at the      *)
(* first lag of the search range                                           *)
C15_Witness ==
    /\ DetectDone
    /\ RmsBelowThreshold(arg.buffer)
    /\ arg.sampleRate > 0
    /\ R(arg.buffer, minPeriod(arg.sampleRate)) > 0
    /\ ret = Returns(Zero)

(* C20: when some lag qualifies, the selected period is the smallest lag   *)
(* of [searchStart, maxPeriod) that exceeds 0.9 * maxVal and is a strict   *)
(* local maximum of the frame's autocorrelation; the peak rule skips no    *)
(* such lag and selects no lag that is not one.                            *)
C20_FirstQualifyingPeak ==
    Searched =>
        LET s == Search(arg.buffer, arg.sampleRate)
            Q == Qualifying(arg.buffer, arg.sampleRate)
        IN  /\ Q # {} => s.period = Least(Q)
            /\ s.peak # -1 => s.peak \in Q


----------------------------------------------------------------------------
(* frequencyToNoteDetails and getFrequencyForNote (services/audioService). *)
(* A nonzero frequency is held by its distance from A4_FREQUENCY in whole  *)
(* cents: HzAt(c) is 440 * 2^(c/1200) Hz, so 12 * log2(f / 440) is c/100,  *)
(* 440 * 2^(n/12) is HzAt(100 * n), and 1200 * log2(f / g) is the          *)
(* difference of the two distances.                                        *)

MaxCents == 3000
MaxOctave == 6

ZeroHz == [zero |-> TRUE, cents |-> 0]

HzAt(c) == [zero |-> FALSE, cents |-> c]

NOTE_NAMES == << "A", "A#", "B", "C", "C#", "D", "D#", "E", "F", "F#", "G", "G#" >>

(* NOTE_NAMES[i] for a 0-based i; undefined outside the array *)
NameAt(i) == IF i \in 0..11 THEN NOTE_NAMES[i + 1] ELSE "undefined"

(* NOTE_NAMES.indexOf(noteName) *)
IndexOf(noteName) ==
    IF \E i \in 0..11 : NameAt(i) = noteName
    THEN CHOOSE i \in 0..11 : NameAt(i) = noteName
    ELSE -1

(* JavaScript's %: the remainder takes the sign of the dividend *)
Rem(a, b) == IF a >= 0 THEN a % b ELSE -((-a) % b)

(* Math.round(c / 100) *)
RoundSemitones(c) == (c + 50) \div 100

getFrequencyForNoteMidi(noteName, octave) ==
    LET noteIndex == IndexOf(noteName)
        noteNumber == noteIndex + (octave * 12)
    IN  HzAt(100 * (noteNumber - 69))

getFrequencyForNote(noteName, octave) ==
    LET noteIndex == IndexOf(noteName)
        noteNumber == noteIndex + (octave * 12)
    IN  HzAt(100 * (noteNumber - 57))

Null == [fn |-> "frequencyToNoteDetails", kind |-> "null"]

frequencyToNoteDetails(frequency) ==
    IF frequency.zero THEN Null
    ELSE
        LET roundedNoteNumber == RoundSemitones(frequency.cents) + 57
            noteIndex == Rem(roundedNoteNumber, 12)
            octave == roundedNoteNumber \div 12
            noteName == NameAt(noteIndex)
            targetFrequency == getFrequencyForNote(noteName, octave)
            cents == frequency.cents - targetFrequency.cents
        IN  [fn |-> "frequencyToNoteDetails", kind |-> "note",
             noteName |-> noteName, octave |-> octave,
             frequency |-> targetFrequency, cents |-> cents]

NoteCalls ==
    { [fn |-> "frequencyToNoteDetails", kind |-> "call", frequency |-> f] :
        f \in {ZeroHz} \cup { HzAt(c) : c \in (-MaxCents)..MaxCents } }

RoundTripCalls ==
    { [fn |-> "getFrequencyForNote", kind |-> "call", noteName |-> NameAt(i),
       octave |-> o] : i \in 0..11, o \in 0..MaxOctave }

InitNote ==
    /\ SessionIdle
    /\ arg \in NoteCalls \cup RoundTripCalls
    /\ ret = NoCall

(* frequencyToNoteDetails(frequency) *)
MapNote ==
    /\ arg.fn = "frequencyToNoteDetails"
    /\ ret = NoCall
    /\ ret' = frequencyToNoteDetails(arg.frequency)
    /\ UNCHANGED arg
    /\ UNCHANGED sessionVars

(* frequencyToNoteDetails(getFrequencyForNote(noteName, octave)) *)
RoundTrip ==
    /\ arg.fn = "getFrequencyForNote"
    /\ ret = NoCall
    /\ ret' = frequencyToNoteDetails(getFrequencyForNote(arg.noteName, arg.octave))
    /\ UNCHANGED arg
    /\ UNCHANGED sessionVars

NextNote == MapNote \/ RoundTrip

SpecNote == InitNote /\ [][NextNote]_vars

(* the pitch class k semitones from A in the 12-symbol cycle *)
PitchClass(k) == NOTE_NAMES[(k % 12) + 1]

MapDone == arg.fn = "frequencyToNoteDetails" /\ ret # NoCall

(* C16: a frequency whose nearest semitone is k semitones from A4 maps to  *)
(* the pitch class k semitones from A, with octave floor((k + 57) / 12):   *)
(* 440 Hz is A, octave 4, and 110 Hz is A, octave 2.                       *)
C16_NearestNoteName ==
    (MapDone /\ ~arg.frequency.zero) =>
        LET k == RoundSemitones(arg.frequency.cents)
        IN  /\ ret.kind = "note"
            /\ ret.noteName = PitchClass(k)
            /\ ret.octave = (k + 57) \div 12

RoundTripDone == arg.fn = "getFrequencyForNote" /\ ret # NoCall

(* C17: mapping the exact frequency of a note/octave pair returns the same *)
(* name, octave and target frequency with 0 cents of deviation; mapping    *)
(* the frequency 0 returns null.                                           *)
C17_RoundTrip ==
    /\ RoundTripDone =>
        /\ ret.kind = "note"
        /\ ret.noteName = arg.noteName
        /\ ret.octave = arg.octave
        /\ ret.frequency = getFrequencyForNote(arg.noteName, arg.octave)
        /\ ret.cents = 0
    /\ (MapDone /\ arg.frequency.zero) => ret = Null

(* the round trip of a note of the vocal range has run *)
C17_Witness ==
    /\ RoundTripDone
    /\ arg.noteName = "E"
    /\ arg.octave = 2
    /\ ret.noteName = "E"
    /\ ret.octave = 2
    /\ ret.cents = 0


----------------------------------------------------------------------------
(* The smoother of processAudio on its own: in-band frames that all carry  *)
(* the same estimate, from an arbitrary smoothed value.                    *)

MaxSmoothTicks == 2

SmoothStarts == { 20 * k : k \in 0..15 }

SmoothEstimates == { 80, 120, 160, 200 }

SmoothCalls ==
    { [fn |-> "smooth", kind |-> "call", fundamentalFrequency |-> f, ticks |-> 0] :
        f \in SmoothEstimates }

InitSmoother ==
    /\ now = Epoch
    /\ isListening = FALSE
    /\ detectedFrequency = Zero
    /\ displayedFrequency = Zero
    /\ averageFrequency = Zero
    /\ noteDetails = FALSE
    /\ audioContextRef = FALSE
    /\ analyserRef = FALSE
    /\ streamRef = FALSE
    /\ animationFrameId = FALSE
    /\ \E s0 \in SmoothStarts : smoothedFrequencyRef = Rat(s0, 1)
    /\ frequencyHistoryRef = << >>
    /\ lastSoundTimestampRef = 0
    /\ resetStateTimeoutRef = NoTimer
    /\ rafPending = 0
    /\ pendingStarts = 0
    /\ closureIsListening = FALSE
    /\ displayIntervalDue = 0
    /\ heard = 0
    /\ liveStreams = 0
    /\ liveContexts = 0
    /\ arg \in SmoothCalls
    /\ ret = NoCall

(* One in-band frame: the smoothing assignment of processAudio. *)
SmoothTick ==
    /\ arg.fn = "smooth"
    /\ arg.ticks < MaxSmoothTicks
    /\ smoothedFrequencyRef' =
           SmoothedAfterFrame(arg.fundamentalFrequency, smoothedFrequencyRef)
    /\ arg' = [arg EXCEPT !.ticks = @ + 1]
    /\ UNCHANGED << now, isListening, detectedFrequency, displayedFrequency,
                    averageFrequency, noteDetails, audioContextRef, analyserRef,
                    streamRef, animationFrameId, frequencyHistoryRef,
                    lastSoundTimestampRef, resetStateTimeoutRef, rafPending,
                    pendingStarts, closureIsListening, displayIntervalDue,
                    heard, liveStreams, liveContexts, ret >>

NextSmoother == SmoothTick

SpecSmoother == InitSmoother /\ [][NextSmoother]_vars

(* a - f as a numerator over a.d *)
Offset(a, f) == a.n - f * a.d

Abs(x) == IF x < 0 THEN -x ELSE x

Lcm(a, b) == (a \div GCD(a, b)) * b

(* |a - f| < |b - f| *)
Closer(a, b, f) ==
    LET l == Lcm(a.d, b.d)
    IN  Abs(Offset(a, f)) * (l \div a.d) < Abs(Offset(b, f)) * (l \div b.d)

----------------------------------------------------------------------------
(* the first lag, walking forward from lag d, at which the frame's         *)
(* autocorrelation stops strictly decreasing (at most searchSize - 1)      *)
RECURSIVE FirstDipOfR(_, _, _)
FirstDipOfR(buffer, searchSize, d) ==
    IF d < searchSize - 1 /\ R(buffer, d) > R(buffer, d + 1)
    THEN FirstDipOfR(buffer, searchSize, d + 1)
    ELSE d

Correlated ==
    /\ DetectDone
    /\ ~IsSilence(arg.buffer)
    /\ maxPeriod(arg.sampleRate) > 0

(* C21: the search starts at max(minPeriod, firstDip), firstDip being the  *)
(* first lag from 0 at which the frame's autocorrelation stops strictly    *)
(* decreasing: lags on the initial slope are not searched.                 *)
C21_SearchStartSkipsInitialSlope ==
    Correlated =>
        LET d == FirstDipOfR(arg.buffer, maxPeriod(arg.sampleRate), 0)
            m == minPeriod(arg.sampleRate)
        IN  Search(arg.buffer, arg.sampleRate).start = (IF m > d THEN m ELSE d)


(* Full-length frames over a wider range of amplitudes, at two sample      *)
(* rates: frames whose autocorrelation has a plateau at its maximum.       *)
LoudSamples == {0, 1, 2, 3}

LoudRates == {500, 600}

LoudCalls ==
    { [fn |-> "findFundamentalFrequency", kind |-> "call", buffer |-> b,
       sampleRate |-> sr] : b \in [1..MaxLen -> LoudSamples], sr \in LoudRates }

InitDetectLoud ==
    /\ SessionIdle
    /\ arg \in LoudCalls
    /\ ret = NoCall

SpecDetectLoud == InitDetectLoud /\ [][NextDetect]_vars

(* the first lag of from..searchSize-1 that holds the maximum of R there *)
ArgMaxOfR(buffer, from, searchSize) ==
    Least({ i \in from..(searchSize - 1) :
              \A j \in from..(searchSize - 1) : R(buffer, j) <= R(buffer, i) })

(* C22: when no lag of the search range is a qualifying peak and           *)
(* maxVal > 0, the chosen lag is the first lag of the global maximum of R  *)
(* over [searchStart, maxPeriod); when maxVal <= 0 the detector returns 0. *)
C22_FallbackGlobalMaximum ==
    Correlated =>
        LET s == Search(arg.buffer, arg.sampleRate)
        IN  /\ (s.maxVal > 0 /\ Qualifying(arg.buffer, arg.sampleRate) = {}) =>
                  s.period = ArgMaxOfR(arg.buffer, s.start, s.searchSize)
            /\ s.maxVal <= 0 => ret = Returns(Zero)


----------------------------------------------------------------------------
(* lo <= a <= hi for a rational a and integers lo, hi *)
RatWithin(a, lo, hi) == a.n >= lo * a.d /\ a.n <= hi * a.d

(* C23: in every reachable state the smoothed value is in [0,200], every   *)
(* reading of the history has 0 < freq <= 200, and the instant value, the  *)
(* stabilized display value and the rolling average are in [0,200].        *)
C23_ValueBounds ==
    /\ RatWithin(smoothedFrequencyRef, 0, MaxFreq)
    /\ \A i \in DOMAIN frequencyHistoryRef :
          /\ RatGtInt(frequencyHistoryRef[i].freq, 0)
          /\ RatWithin(frequencyHistoryRef[i].freq, 0, MaxFreq)
    /\ RatWithin(detectedFrequency, 0, MaxFreq)
    /\ RatWithin(displayedFrequency, 0, MaxFreq)
    /\ RatWithin(averageFrequency, 0, MaxFreq)

(* two in-band frames and a display tick: every value is positive *)
C23_Witness ==
    /\ isListening
    /\ heard = 2
    /\ Len(frequencyHistoryRef) = 2
    /\ RatGtInt(smoothedFrequencyRef, 0)
    /\ RatGtInt(detectedFrequency, 0)
    /\ RatGtInt(displayedFrequency, 1)
    /\ RatGtInt(averageFrequency, 0)

(* The step behind the upper bound: an in-band tick takes a smoothed value *)
(* of [0,200] to a value of [0,200], from any such value.                  *)
SmoothTickKeepsBounds ==
    [][(SmoothTick /\ RatWithin(smoothedFrequencyRef, 0, MaxFreq))
          => RatWithin(smoothedFrequencyRef', 0, MaxFreq)]_vars


----------------------------------------------------------------------------
(* C24: after a reset of the outputs (session start, or the freeze         *)
(* callback) the stabilized display value is 0 as long as no in-band       *)
(* estimate has been processed, whatever display ticks run meanwhile; it   *)
(* leaves 0 only by a display tick that follows an in-band estimate.       *)
C24_DisplayStaysZeroAfterReset ==
    /\ [](heard = 0 => displayedFrequency = Zero)
    /\ [][/\ StartBegin => (heard' = 0 /\ displayedFrequency' = Zero)
          /\ FreezeTimeout => (heard' = 0 /\ displayedFrequency' = Zero)
          /\ (DisplayTick /\ heard = 0) => displayedFrequency' = Zero
          /\ (displayedFrequency = Zero /\ displayedFrequency' # Zero)
                => (DisplayTick /\ heard > 0)]_vars

(* a Listening session whose display tick is due while no in-band estimate *)
(* has been processed since the start: the display is 0                    *)
C24_Witness ==
    /\ isListening
    /\ analyserRef
    /\ heard = 0
    /\ now >= displayIntervalDue
    /\ now > Epoch
    /\ displayedFrequency = Zero

====
